---- MODULE Spec2Model ----
(***************************************************************************)
(* Streaming agent orchestration of potpie:                                *)
(*   DebuggingChatAgent.run and CodeChangesChatAgent.run (the Response     *)
(*   Streaming Orchestrator), and the line loop of DebugRAGAgent.run (the  *)
(*   Transcript Stream Extractor).                                         *)
(*                                                                         *)
(* A request is the async generator run(...): every await / yield of its   *)
(* body is one step of the request, `pc` is the position in the body.      *)
(* Requests of one orchestrator instance follow each other; self.chain,    *)
(* the lru_cache of _get_prompts and the History Store outlive a request.  *)
(***************************************************************************)
EXTENDS Integers, Sequences, FiniteSets, TLC

\* ---- bounds of the model ----
MaxRequests == 2      \* requests served by one orchestrator instance
MaxChunks == 2        \* chunks the direct LLM chain produces in one request
MaxLines == 4         \* lines of a transcript fed to the extractor
MaxNodes == 2         \* node contexts given to DebugRAGAgent.run
MaxHistory == 6       \* entries of a session history given to the classifier
MaxRuns == 2          \* runs of DebugRAGAgent.run in progress in one process
MaxPrints == 2        \* lines the crew of one run prints

\* ---- program constants ----
maxsize == 2          \* @lru_cache(maxsize=2) on _get_prompts
HistoryWindow == 5    \* history[-5:] in _classify_query

Users == {"u1", "u2"}
Conversations == {"c1", "c2"}
NoChain == "None"                  \* self.chain = None
NoError == "None"

VARIABLES
    agent,              \* which orchestrator class the instance is
    chain,              \* self.chain: NoChain, or the user whose prompts built it
    prompt_cache,       \* lru_cache of _get_prompts: user ids, least recent first
    message_buffer,     \* History Store: buffered chunks per conversation
    turns,              \* History Store: durable turns per conversation
    pc,                 \* position of the current request in run
    nreq,               \* requests started so far
    user_id, conversation_id,      \* arguments of the current request
    validated_history,  \* local of run
    classification,     \* local of run
    tool_results,       \* local of run
    citations,          \* local of run
    runner,             \* what the Tool-Agent Runner does in this request
    rag_result,         \* local of run: the awaited Runner result
    content,            \* local of run: content of the chunk in hand
    full_response,      \* local of run
    produced,           \* contents the direct chain produced, in production order
    yielded,            \* items the generator has handed to the caller
    trace,              \* calls to collaborators made by this request, in order
    error,              \* the exception caught by `except Exception as e`
    lines,              \* extractor: the lines the pipe delivers
    pos,                \* extractor: lines consumed so far
    final_answer_streaming,        \* extractor: local flag
    fragments,          \* extractor: fragments yielded so far
    run_pc,             \* DebugRAGAgent.run: position in the body
    node_ids,           \* DebugRAGAgent.run: the argument node_ids
    code_results,       \* DebugRAGAgent.run: local
    run_calls,          \* DebugRAGAgent.run: calls made so far, in order
    kickoff_pc,         \* the task running kickoff(): its position
    write_fd,           \* the write end of the pipe
    history,            \* the session history as the History Store returns it
    classifier_history, \* _classify_query: inputs["history"]
    classify_pc,        \* position in the preparation of the classifier's input
    sys_stdout,         \* sys.stdout of the process: 0 (the original) or a run's write_file
    saved_stdout,       \* per run: redirect_stdout's saved old target
    task_pc,            \* per run: position of the task running kickoff()
    pipe_fd,            \* per run: the write end of its pipe
    pipe_lines,         \* per run: the lines written to its pipe, with their writer
    printed,            \* per run: lines its crew has printed so far
    reader_pc,          \* per run: position of its read loop
    read_pos,           \* per run: lines its read loop has read
    streaming,          \* per run: its final_answer_streaming
    emitted,            \* per run: the fragments it yielded, with their writer
    console,            \* lines that went to the original stdout
    closed_write        \* a print was made to a closed write_file

orch_vars == <<agent, chain, prompt_cache, message_buffer, turns, pc, nreq,
               user_id, conversation_id, validated_history, classification,
               tool_results, citations, runner, rag_result, content,
               full_response, produced, yielded, trace, error>>
request_locals == <<validated_history, classification, tool_results, citations,
                    runner, rag_result, content, full_response, produced>>
extract_vars == <<lines, pos, final_answer_streaming, fragments>>
run_vars == <<run_pc, node_ids, code_results, run_calls, kickoff_pc, write_fd>>
classify_vars == <<history, classifier_history, classify_pc>>
shared_vars == <<sys_stdout, saved_stdout, task_pc, pipe_fd, pipe_lines, printed,
                 reader_pc, read_pos, streaming, emitted, console, closed_write>>
side_vars == <<extract_vars, run_vars, classify_vars, shared_vars>>
vars == <<orch_vars, side_vars>>

\* ------------------------------------------------------------------------
\* Values
\* ------------------------------------------------------------------------
Range(s) == {s[i] : i \in 1..Len(s)}

\* chunk.content of the k-th chunk the direct chain produces in the n-th
\* request.  run never inspects a content, it only appends and forwards it, so
\* every chunk gets a content of its own: any two chunks can be told apart.
ChunkContent(n, k) == "r" \o ToString(n) \o "c" \o ToString(k) \o ";"

RECURSIVE Concat(_)
\* "".join(s) for a sequence of strings
Concat(s) == IF s = <<>> THEN "" ELSE Head(s) \o Concat(Tail(s))

\* a call to a collaborator, as recorded in trace
Ev(op, conv, arg) == [op |-> op, conv |-> conv, arg |-> arg]

NoResult == [kind |-> "None", citations |-> <<>>, response |-> ""]
CitationLists == {<<"/proj/a.py", "b.py">>}
\* what kickoff_*_agent does: a CrewOutput with .pydantic set, one with only
\* .raw, or an exception
RunnerOutcomes ==
    {[kind |-> "structured", citations |-> cs, response |-> "nodes"] :
        cs \in CitationLists}
    \cup {[kind |-> "raw", citations |-> <<>>, response |-> "text"],
          [kind |-> "raises", citations |-> <<>>, response |-> ""]}

\* AgentsService.format_citations: a pure, element-wise formatter
FormatCitation(c) == IF c = "/proj/a.py" THEN "a.py" ELSE c
format_citations(cs) == [i \in 1..Len(cs) |-> FormatCitation(cs[i])]

\* (mutant) the object is dumped without its citations
JsonDumps_NoCitations(cs, m) == [json |-> [message |-> m]]

\* json.dumps({"citations": cs, "message": m}): the item is the text of a JSON
\* object; the model keeps the object the text decodes to
JsonDumps(cs, m) == [json |-> [citations |-> cs, message |-> m]]
\* f"An error occurred: {str(e)}": plain text, which no JSON decoder accepts
ErrorText(e) == [text |-> "An error occurred: " \o e]
IsJson(item) == DOMAIN item = {"json"}
IsErrorText(item) == DOMAIN item = {"text"}

\* ------------------------------------------------------------------------
\* History Store (ChatHistoryService): buffered append and flush
\* ------------------------------------------------------------------------
\* add_message_chunk(conversation_id, content, AI_GENERATED, citations=cs)
add_message_chunk(buf, conv, c, cs) ==
    [buf EXCEPT ![conv] = Append(@, [content |-> c, citations |-> cs])]
\* flush_message_buffer(conversation_id, AI_GENERATED): the buffered chunks
\* become one durable turn, the buffer of the conversation is emptied
flushed_turns(buf, ts, conv) == [ts EXCEPT ![conv] = Append(@, buf[conv])]
flushed_buffer(buf, conv) == [buf EXCEPT ![conv] = <<>>]

\* functools.lru_cache: a hit moves the key to the most recent end, a miss
\* appends it and evicts the least recent key beyond maxsize
lru_put(cache, key) ==
    LET without == SelectSeq(cache, LAMBDA k : k # key)
        put == Append(without, key)
    IN  IF Len(put) > maxsize THEN Tail(put) ELSE put

\* ------------------------------------------------------------------------
\* Initial state: a freshly constructed orchestrator, no request yet
\* ------------------------------------------------------------------------
LocalsInit ==
    /\ validated_history = <<>>
    /\ classification = "None"
    /\ tool_results = <<>>
    /\ citations = <<>>
    /\ runner = NoResult
    /\ rag_result = NoResult
    /\ content = ""
    /\ full_response = ""
    /\ produced = <<>>

OrchIdle ==
    /\ chain = NoChain
    /\ prompt_cache = <<>>
    /\ message_buffer = [c \in Conversations |-> <<>>]
    /\ turns = [c \in Conversations |-> <<>>]
    /\ pc = "idle"
    /\ nreq = 0
    /\ user_id = "None"
    /\ conversation_id = "None"
    /\ LocalsInit
    /\ yielded = <<>>
    /\ trace = <<>>
    /\ error = NoError

ExtractIdle ==
    /\ lines = <<>>
    /\ pos = 0
    /\ final_answer_streaming = FALSE
    /\ fragments = <<>>

\* no DebugRAGAgent.run in progress
RunIdle ==
    /\ run_pc = "idle"
    /\ node_ids = <<>>
    /\ code_results = <<>>
    /\ run_calls = <<>>
    /\ kickoff_pc = "none"
    /\ write_fd = "none"

ClassifyIdle ==
    /\ history = <<>>
    /\ classifier_history = <<>>
    /\ classify_pc = "idle"

\* the runs of DebugRAGAgent.run that share the process; 0 stands for the
\* original sys.stdout, r for the write_file of run r
Runs == 1..MaxRuns
OrigStdout == 0

\* no run was started: sys.stdout is the original stream
SharedIdle ==
    /\ sys_stdout = OrigStdout
    /\ saved_stdout = [r \in Runs |-> OrigStdout]
    /\ task_pc = [r \in Runs |-> "none"]
    /\ pipe_fd = [r \in Runs |-> "none"]
    /\ pipe_lines = [r \in Runs |-> <<>>]
    /\ printed = [r \in Runs |-> 0]
    /\ reader_pc = [r \in Runs |-> "none"]
    /\ read_pos = [r \in Runs |-> 0]
    /\ streaming = [r \in Runs |-> FALSE]
    /\ emitted = [r \in Runs |-> <<>>]
    /\ console = <<>>
    /\ closed_write = FALSE

Init ==
    /\ agent \in {"debugging", "code_changes"}
    /\ OrchIdle
    /\ ExtractIdle
    /\ RunIdle
    /\ ClassifyIdle
    /\ SharedIdle

\* ------------------------------------------------------------------------
\* run: the request
\* ------------------------------------------------------------------------
\* (mutant) the exception is not caught by the except clause and leaves run
Raise_Propagate(e) == pc' = "raised" /\ error' = e

\* an exception inside the try block: control goes to the except clause
Raise(e) == pc' = "except" /\ error' = e

\* the caller calls run(...) and starts iterating the generator.  Users and
\* conversations are interchangeable names: the first request of an instance
\* is taken to be u1's in c1, every later request is by any user in any
\* conversation.
StartRequest ==
    /\ pc \in {"idle", "done"}
    /\ nreq < MaxRequests
    /\ nreq' = nreq + 1
    /\ \E u \in (IF nreq = 0 THEN {"u1"} ELSE Users),
          c \in (IF nreq = 0 THEN {"c1"} ELSE Conversations) :
          user_id' = u /\ conversation_id' = c
    /\ validated_history' = <<>> /\ classification' = "None"
    /\ tool_results' = <<>> /\ citations' = <<>>
    /\ runner' = NoResult /\ rag_result' = NoResult
    /\ content' = "" /\ full_response' = "" /\ produced' = <<>>
    /\ yielded' = <<>> /\ trace' = <<>> /\ error' = NoError
    /\ pc' = "create_chain"
    /\ UNCHANGED <<agent, chain, prompt_cache, message_buffer, turns, side_vars>>

\* (mutant) missing prompts are noted as an error but the request goes on
CreateChain_GoOn ==
    /\ pc = "create_chain"
    /\ IF chain # NoChain
       THEN /\ pc' = "get_session_history"
            /\ UNCHANGED <<chain, prompt_cache, trace, error>>
       ELSE /\ prompt_cache' = lru_put(prompt_cache, user_id)
            /\ trace' = Append(trace, Ev("_get_prompts", "None", user_id))
            /\ IF user_id \in Range(prompt_cache)
               THEN Raise("RuntimeError") /\ UNCHANGED chain
               ELSE \/ \E prompts \in SUBSET {"SYSTEM", "HUMAN"} :
                         /\ chain' = user_id
                         /\ pc' = "get_session_history"
                         /\ error' = IF prompts = {"SYSTEM", "HUMAN"}
                                     THEN error ELSE "ValueError"
                    \/ Raise("PromptServiceError") /\ UNCHANGED chain
    /\ UNCHANGED <<agent, message_buffer, turns, nreq, user_id, conversation_id,
                   request_locals, yielded, side_vars>>

\* if not self.chain: self.chain = await self._create_chain(user_id)
\* _get_prompts is an async def under lru_cache: the cache holds the coroutine
\* object, so a second call with the same user gets the coroutine that was
\* already awaited and awaiting it again raises RuntimeError.
CreateChain ==
    /\ pc = "create_chain"
    /\ IF chain # NoChain
       THEN /\ pc' = "get_session_history"
            /\ UNCHANGED <<chain, prompt_cache, trace, error>>
       ELSE /\ prompt_cache' = lru_put(prompt_cache, user_id)
            /\ trace' = Append(trace, Ev("_get_prompts", "None", user_id))
            /\ IF user_id \in Range(prompt_cache)
               THEN Raise("RuntimeError") /\ UNCHANGED chain
               ELSE \/ \E prompts \in SUBSET {"SYSTEM", "HUMAN"} :
                         IF prompts = {"SYSTEM", "HUMAN"}
                         THEN /\ chain' = user_id
                              /\ pc' = "get_session_history"
                              /\ UNCHANGED error
                         ELSE Raise("ValueError") /\ UNCHANGED chain
                    \/ Raise("PromptServiceError") /\ UNCHANGED chain
    /\ UNCHANGED <<agent, message_buffer, turns, nreq, user_id, conversation_id,
                   request_locals, yielded, side_vars>>

\* history = self.history_manager.get_session_history(user_id, conversation_id)
\* validated_history = [...]
GetSessionHistory ==
    /\ pc = "get_session_history"
    /\ trace' = Append(trace, Ev("get_session_history", conversation_id, user_id))
    /\ \/ /\ validated_history' = turns[conversation_id]
          /\ pc' = "classify"
          /\ UNCHANGED error
       \/ Raise("HistoryStoreError") /\ UNCHANGED validated_history
    /\ UNCHANGED <<agent, chain, prompt_cache, message_buffer, turns, nreq,
                   user_id, conversation_id, classification, tool_results,
                   citations, runner, rag_result, content, full_response,
                   produced, yielded, side_vars>>

\* (mutant) a malformed response is answered by asking the classifier again
ClassifyQuery_Retry ==
    /\ pc = "classify"
    /\ \/ /\ trace' = Append(trace, Ev("_classify_query", "None", user_id))
          /\ \E r \in {"AGENT_REQUIRED", "NO_AGENT"} :
                /\ classification' = r
                /\ pc' = IF r = "AGENT_REQUIRED" THEN "agent" ELSE "direct"
          /\ tool_results' = <<>>
          /\ citations' = <<>>
          /\ UNCHANGED error
       \/ /\ trace' = Append(Append(trace, Ev("_classify_query", "None", user_id)),
                             Ev("_classify_query", "None", user_id))
          /\ Raise("OutputParserException")
          /\ UNCHANGED <<classification, tool_results, citations>>
    /\ UNCHANGED <<agent, chain, prompt_cache, message_buffer, turns, nreq,
                   user_id, conversation_id, validated_history, runner,
                   rag_result, content, full_response, produced, yielded,
                   side_vars>>

\* classification = await self._classify_query(query, validated_history, user_id)
\* tool_results = []; citations = []
\* if classification == ClassificationResult.AGENT_REQUIRED: ...
ClassifyQuery ==
    /\ pc = "classify"
    /\ trace' = Append(trace, Ev("_classify_query", "None", user_id))
    /\ \/ \E r \in {"AGENT_REQUIRED", "NO_AGENT"} :
             /\ classification' = r
             /\ pc' = IF r = "AGENT_REQUIRED" THEN "agent" ELSE "direct"
             /\ tool_results' = <<>>
             /\ citations' = <<>>
             /\ UNCHANGED error
       \/ /\ Raise("OutputParserException")
          /\ UNCHANGED <<classification, tool_results, citations>>
    /\ UNCHANGED <<agent, chain, prompt_cache, message_buffer, turns, nreq,
                   user_id, conversation_id, validated_history, runner,
                   rag_result, content, full_response, produced, yielded,
                   side_vars>>

\* DebuggingChatAgent: rag_result = await kickoff_debug_rag_agent(...)
\* kickoff_debug_rag_agent has a `yield` in its body, so the call returns an
\* async generator object without running any of it; `await` on that object
\* raises TypeError.  Lines 149-189 of run are never reached.
DebuggingAgentBranch ==
    /\ pc = "agent"
    /\ agent = "debugging"
    /\ \E r \in RunnerOutcomes : runner' = r
    /\ trace' = Append(trace, Ev("kickoff_debug_rag_agent", "None", user_id))
    /\ Raise("TypeError")
    /\ UNCHANGED <<agent, chain, prompt_cache, message_buffer, turns, nreq,
                   user_id, conversation_id, validated_history, classification,
                   tool_results, citations, rag_result, content, full_response,
                   produced, yielded, side_vars>>

\* CodeChangesChatAgent: blast_radius_result = await kickoff_blast_radius_agent(...)
\* then citations / response from .pydantic or .raw, and tool_results
CodeChangesAgentBranch ==
    /\ pc = "agent"
    /\ agent = "code_changes"
    /\ trace' = Append(trace, Ev("kickoff_blast_radius_agent", "None", user_id))
    /\ \E r \in RunnerOutcomes :
          /\ runner' = r
          /\ IF r.kind = "raises"
             THEN /\ Raise("RunnerError")
                  /\ UNCHANGED <<rag_result, citations, tool_results>>
             ELSE /\ rag_result' = r
                  /\ citations' = IF r.kind = "structured" THEN r.citations ELSE <<>>
                  /\ tool_results' = <<"Blast Radius Agent result: " \o r.response>>
                  /\ pc' = "direct"
                  /\ UNCHANGED error
    /\ UNCHANGED <<agent, chain, prompt_cache, message_buffer, turns, nreq,
                   user_id, conversation_id, validated_history, classification,
                   content, full_response, produced, yielded, side_vars>>

\* inputs = {...}; citations = self.agents_service.format_citations(citations)
\* full_response = ""
PrepareDirect ==
    /\ pc = "direct"
    /\ citations' = format_citations(citations)
    /\ full_response' = ""
    /\ pc' = "astream"
    /\ UNCHANGED <<agent, chain, prompt_cache, message_buffer, turns, nreq,
                   user_id, conversation_id, validated_history, classification,
                   tool_results, runner, rag_result, content, produced, yielded,
                   trace, error, side_vars>>

\* (mutant) the chunk is yielded without being written to the buffer first
AstreamNext_NoWrite ==
    /\ pc = "astream"
    /\ \/ /\ Len(produced) < MaxChunks
          /\ LET c == ChunkContent(nreq, Len(produced) + 1)
             IN  /\ content' = c
                 /\ produced' = Append(produced, c)
                 /\ full_response' = full_response \o c
          /\ pc' = "yield"
          /\ UNCHANGED error
       \/ /\ pc' = "flush_message_buffer"
          /\ UNCHANGED <<content, produced, full_response, error>>
       \/ /\ Raise("StreamError")
          /\ UNCHANGED <<content, produced, full_response>>
    /\ trace' = Append(trace, Ev("astream", "None", user_id))
    /\ UNCHANGED <<agent, chain, prompt_cache, message_buffer, turns, nreq,
                   user_id, conversation_id, validated_history, classification,
                   tool_results, citations, runner, rag_result, yielded,
                   side_vars>>

\* (mutant) the request ends after the loop without flushing the buffer
AstreamNext_NoFlush ==
    /\ pc = "astream"
    /\ \/ /\ Len(produced) < MaxChunks
          /\ LET c == ChunkContent(nreq, Len(produced) + 1)
             IN  /\ content' = c
                 /\ produced' = Append(produced, c)
                 /\ full_response' = full_response \o c
          /\ pc' = "add_message_chunk"
          /\ UNCHANGED error
       \/ /\ pc' = "done"
          /\ UNCHANGED <<content, produced, full_response, error>>
       \/ /\ Raise("StreamError")
          /\ UNCHANGED <<content, produced, full_response>>
    /\ trace' = Append(trace, Ev("astream", "None", user_id))
    /\ UNCHANGED <<agent, chain, prompt_cache, message_buffer, turns, nreq,
                   user_id, conversation_id, validated_history, classification,
                   tool_results, citations, runner, rag_result, yielded,
                   side_vars>>

\* async for chunk in self.chain.astream(inputs):
\*     content = chunk.content ...; full_response += content
\* (every request for the next chunk of the stream is recorded in trace)
AstreamNext ==
    /\ pc = "astream"
    /\ \/ /\ Len(produced) < MaxChunks
          /\ LET c == ChunkContent(nreq, Len(produced) + 1)
             IN  /\ content' = c
                 /\ produced' = Append(produced, c)
                 /\ full_response' = full_response \o c
          /\ pc' = "add_message_chunk"
          /\ UNCHANGED error
       \/ /\ pc' = "flush_message_buffer"
          /\ UNCHANGED <<content, produced, full_response, error>>
       \/ /\ Raise("StreamError")
          /\ UNCHANGED <<content, produced, full_response>>
    /\ trace' = Append(trace, Ev("astream", "None", user_id))
    /\ UNCHANGED <<agent, chain, prompt_cache, message_buffer, turns, nreq,
                   user_id, conversation_id, validated_history, classification,
                   tool_results, citations, runner, rag_result, yielded,
                   side_vars>>

\* the citations= argument of add_message_chunk in the streaming loop:
\* <<cs>> is a list, <<>> is None
ChunkCitationsArg ==
    IF agent = "code_changes" /\ classification # "AGENT_REQUIRED"
    THEN <<>> ELSE <<citations>>
\* the "citations" field of the object given to json.dumps in the loop
ChunkCitationsField ==
    IF agent = "code_changes" /\ classification # "AGENT_REQUIRED"
    THEN <<>> ELSE citations

\* self.history_manager.add_message_chunk(conversation_id, content, ...)
AddMessageChunk ==
    /\ pc = "add_message_chunk"
    /\ trace' = Append(trace, Ev("add_message_chunk", conversation_id, content))
    /\ \/ /\ message_buffer' = add_message_chunk(message_buffer, conversation_id,
                                                 content, ChunkCitationsArg)
          /\ pc' = "yield"
          /\ UNCHANGED error
       \/ Raise("HistoryStoreError") /\ UNCHANGED message_buffer
    /\ UNCHANGED <<agent, chain, prompt_cache, turns, nreq, user_id,
                   conversation_id, request_locals, yielded, side_vars>>

\* (mutant) the text accumulated so far is yielded instead of the chunk
YieldChunk_FullResponse ==
    /\ pc = "yield"
    /\ yielded' = Append(yielded, JsonDumps(ChunkCitationsField, full_response))
    /\ trace' = Append(trace, Ev("yield", "None", full_response))
    /\ pc' = "astream"
    /\ UNCHANGED <<agent, chain, prompt_cache, message_buffer, turns, nreq,
                   user_id, conversation_id, request_locals, error, side_vars>>

\* (mutant) the buffer is flushed after every chunk, inside the loop
YieldChunk_FlushEach ==
    /\ pc = "yield"
    /\ yielded' = Append(yielded, JsonDumps(ChunkCitationsField, content))
    /\ turns' = flushed_turns(message_buffer, turns, conversation_id)
    /\ message_buffer' = flushed_buffer(message_buffer, conversation_id)
    /\ trace' = Append(Append(trace, Ev("yield", "None", content)),
                       Ev("flush_message_buffer", conversation_id, ""))
    /\ pc' = "astream"
    /\ UNCHANGED <<agent, chain, prompt_cache, nreq, user_id, conversation_id,
                   request_locals, error, side_vars>>

\* yield json.dumps({"citations": ..., "message": content})
YieldChunk ==
    /\ pc = "yield"
    /\ yielded' = Append(yielded, JsonDumps(ChunkCitationsField, content))
    /\ trace' = Append(trace, Ev("yield", "None", content))
    /\ pc' = "astream"
    /\ UNCHANGED <<agent, chain, prompt_cache, message_buffer, turns, nreq,
                   user_id, conversation_id, request_locals, error, side_vars>>

\* (mutant) the flush replaces the durable turns of the conversation by the
\* new turn
FlushMessageBuffer_Overwrite ==
    /\ pc = "flush_message_buffer"
    /\ trace' = Append(trace, Ev("flush_message_buffer", conversation_id, ""))
    /\ \/ /\ turns' = [turns EXCEPT ![conversation_id] = <<message_buffer[conversation_id]>>]
          /\ message_buffer' = flushed_buffer(message_buffer, conversation_id)
          /\ pc' = "done"
          /\ UNCHANGED error
       \/ Raise("HistoryStoreError") /\ UNCHANGED <<turns, message_buffer>>
    /\ UNCHANGED <<agent, chain, prompt_cache, nreq, user_id, conversation_id,
                   request_locals, yielded, side_vars>>

\* self.history_manager.flush_message_buffer(conversation_id, AI_GENERATED)
FlushMessageBuffer ==
    /\ pc = "flush_message_buffer"
    /\ trace' = Append(trace, Ev("flush_message_buffer", conversation_id, ""))
    /\ \/ /\ turns' = flushed_turns(message_buffer, turns, conversation_id)
          /\ message_buffer' = flushed_buffer(message_buffer, conversation_id)
          /\ pc' = "done"
          /\ UNCHANGED error
       \/ Raise("HistoryStoreError") /\ UNCHANGED <<turns, message_buffer>>
    /\ UNCHANGED <<agent, chain, prompt_cache, nreq, user_id, conversation_id,
                   request_locals, yielded, side_vars>>

\* (mutant) the except clause re-raises after yielding the error text
HandleException_Reraise ==
    /\ pc = "except"
    /\ yielded' = Append(yielded, ErrorText(error))
    /\ trace' = Append(trace, Ev("yield_error", "None", "An error occurred: " \o error))
    /\ pc' = "raised"
    /\ UNCHANGED <<agent, chain, prompt_cache, message_buffer, turns, nreq,
                   user_id, conversation_id, request_locals, error, side_vars>>

\* (mutant) the except clause flushes the buffer before yielding the error text
HandleException_Flush ==
    /\ pc = "except"
    /\ turns' = flushed_turns(message_buffer, turns, conversation_id)
    /\ message_buffer' = flushed_buffer(message_buffer, conversation_id)
    /\ yielded' = Append(yielded, ErrorText(error))
    /\ trace' = Append(Append(trace, Ev("flush_message_buffer", conversation_id, "")),
                       Ev("yield_error", "None", "An error occurred: " \o error))
    /\ pc' = "done"
    /\ UNCHANGED <<agent, chain, prompt_cache, nreq, user_id, conversation_id,
                   request_locals, error, side_vars>>

\* (mutant) the except clause flushes the buffer after yielding the error text
HandleException_FlushAfter ==
    /\ pc = "except"
    /\ turns' = flushed_turns(message_buffer, turns, conversation_id)
    /\ message_buffer' = flushed_buffer(message_buffer, conversation_id)
    /\ yielded' = Append(yielded, ErrorText(error))
    /\ trace' = Append(Append(trace, Ev("yield_error", "None", "An error occurred: " \o error)),
                       Ev("flush_message_buffer", conversation_id, ""))
    /\ pc' = "done"
    /\ UNCHANGED <<agent, chain, prompt_cache, nreq, user_id, conversation_id,
                   request_locals, error, side_vars>>

\* except Exception as e: logger.error(...); yield f"An error occurred: {str(e)}"
HandleException ==
    /\ pc = "except"
    /\ yielded' = Append(yielded, ErrorText(error))
    /\ trace' = Append(trace, Ev("yield_error", "None", "An error occurred: " \o error))
    /\ pc' = "done"
    /\ UNCHANGED <<agent, chain, prompt_cache, message_buffer, turns, nreq,
                   user_id, conversation_id, request_locals, error, side_vars>>

\* the steps of a request once it was started
RequestStep ==
    \/ CreateChain
    \/ GetSessionHistory
    \/ ClassifyQuery
    \/ DebuggingAgentBranch
    \/ CodeChangesAgentBranch
    \/ PrepareDirect
    \/ AstreamNext
    \/ AddMessageChunk
    \/ YieldChunk
    \/ FlushMessageBuffer
    \/ HandleException

Next == StartRequest \/ RequestStep

Spec == Init /\ [][Next]_vars

\* the caller keeps iterating the generator and every awaited call returns or
\* raises: a started request keeps taking steps
FairSpec == Spec /\ WF_vars(RequestStep)

\* ------------------------------------------------------------------------
\* Transcript Stream Extractor: the read loop of DebugRAGAgent.run
\* ------------------------------------------------------------------------
\* A line is the sequence of its characters; "ESC" stands for the one
\* character \x1b.  Iterating the read end of the pipe delivers every line with
\* its "\n"; only the last line before the pipe closes may lack it.
NL == <<"\n">>
ColorReset == <<"ESC", "[", "0", "0", "m">>                       \* "\x1b[00m"
Marker == <<"#", "#", " ", "F", "i", "n", "a", "l", " ",
            "A", "n", "s", "w", "e", "r", ":">>                    \* "## Final Answer:"
Thinking == <<"t", "h", "i", "n", "k", "i", "n", "g", ".", ".", ".">>
Hello == <<"H", "e", "l", "l", "o">>
World == <<"W", "o", "r", "l", "d">>

\* line.endswith(suffix)
EndsWith(line, suffix) ==
    /\ Len(line) >= Len(suffix)
    /\ SubSeq(line, Len(line) - Len(suffix) + 1, Len(line)) = suffix
\* needle in line
Contains(line, needle) ==
    \E i \in 0..(Len(line) - Len(needle)) :
        SubSeq(line, i + 1, i + Len(needle)) = needle
\* line[:-n] for n > 0
DropLast(line, n) == SubSeq(line, 1, Len(line) - n)

TerminatedLines ==
    { Thinking \o NL,
      Marker \o <<" ">> \o NL,                 \* "## Final Answer: \n"
      <<"x">> \o Marker \o NL,                 \* the marker inside a line
      Hello \o NL,
      World \o ColorReset \o NL,
      ColorReset \o NL,                        \* nothing but the escape sequence
      <<"a">> \o ColorReset \o <<"b">> \o NL } \* the escape sequence inside a line
UnterminatedLines ==
    { World \o ColorReset, World }
LineSet == TerminatedLines \cup UnterminatedLines

Transcripts ==
    { t \in UNION { [1..n -> LineSet] : n \in 0..MaxLines } :
        \A i \in 1..Len(t) : t[i] \in UnterminatedLines => i = Len(t) }

\* (mutant) only the five characters of the escape sequence are counted
Fragment_OffByOne(line) ==
    IF EndsWith(line, ColorReset \o NL) THEN DropLast(line, 5) ELSE line

\* the fragment the loop yields for a line read while final_answer_streaming
\*     if line.endswith("\x1b[00m\n"): yield line[:-6]  else: yield line
Fragment(line) ==
    IF EndsWith(line, ColorReset \o NL) THEN DropLast(line, 6) ELSE line

\* (mutant) every line is yielded, whether the marker was seen or not
ExtractLine_NoFlagTest ==
    /\ pos < Len(lines)
    /\ LET line == lines[pos + 1]
       IN  /\ pos' = pos + 1
           /\ fragments' = Append(fragments, Fragment(line))
           /\ final_answer_streaming' =
                  IF Contains(line, Marker) THEN TRUE
                  ELSE final_answer_streaming
    /\ UNCHANGED <<orch_vars, lines, run_vars, classify_vars, shared_vars>>

\* (mutant) the flag follows the line just read: it is reset by a line
\* without the marker
ExtractLine_ResetFlag ==
    /\ pos < Len(lines)
    /\ LET line == lines[pos + 1]
       IN  IF line = <<>>
           THEN /\ pos' = Len(lines)
                /\ UNCHANGED <<fragments, final_answer_streaming>>
           ELSE /\ pos' = pos + 1
                /\ fragments' = IF final_answer_streaming
                                THEN Append(fragments, Fragment(line))
                                ELSE fragments
                /\ final_answer_streaming' = Contains(line, Marker)
    /\ UNCHANGED <<orch_vars, lines, run_vars, classify_vars, shared_vars>>

\* one iteration of `async for line in read_file`
ExtractLine ==
    /\ pos < Len(lines)
    /\ LET line == lines[pos + 1]
       IN  IF line = <<>>
           THEN \* if not line: break
                /\ pos' = Len(lines)
                /\ UNCHANGED <<fragments, final_answer_streaming>>
           ELSE /\ pos' = pos + 1
                /\ fragments' = IF final_answer_streaming
                                THEN Append(fragments, Fragment(line))
                                ELSE fragments
                /\ final_answer_streaming' =
                       IF Contains(line, Marker) THEN TRUE
                       ELSE final_answer_streaming
    /\ UNCHANGED <<orch_vars, lines, run_vars, classify_vars, shared_vars>>

InitExtract ==
    /\ agent = "debugging"
    /\ OrchIdle
    /\ lines \in Transcripts
    /\ pos = 0
    /\ final_answer_streaming = FALSE
    /\ fragments = <<>>
    /\ RunIdle
    /\ ClassifyIdle
    /\ SharedIdle

NextExtract == ExtractLine

SpecExtract == InitExtract /\ [][NextExtract]_vars

\* ------------------------------------------------------------------------
\* DebugRAGAgent.run: the Tool-Agent Runner, its pipe and the read loop
\* ------------------------------------------------------------------------
NodeContexts == {[node_id |-> "a"], [node_id |-> "b"]}
NodeLists == UNION { [1..n -> NodeContexts] : n \in 0..MaxNodes }
\* what the crew prints while it runs
CrewLines == { Thinking \o NL, Marker \o <<" ">> \o NL, World \o ColorReset \o NL }
RunCall(op, arg) == [op |-> op, arg |-> arg]
\* GetCodeFromMultipleNodeIdsTool.run_multiple: one result per node id
run_multiple(ids) == [i \in 1..Len(ids) |-> [node_id |-> ids[i], code |-> "code"]]

\* (mutant) the code of every node is looked up by a call of its own
LookupCode_PerNode ==
    /\ run_pc = "lookup"
    /\ run_calls' = run_calls \o
          [i \in 1..Len(node_ids) |-> RunCall("run_multiple", <<node_ids[i].node_id>>)]
    /\ code_results' = run_multiple([i \in 1..Len(node_ids) |-> node_ids[i].node_id])
    /\ run_pc' = "create_agents"
    /\ UNCHANGED <<orch_vars, extract_vars, classify_vars, shared_vars, node_ids, kickoff_pc,
                   write_fd>>

\* code_results = []
\* if len(node_ids) > 0:
\*     code_results = await GetCodeFromMultipleNodeIdsTool(...).run_multiple(
\*         project_id, [node.node_id for node in node_ids])
LookupCode ==
    /\ run_pc = "lookup"
    /\ IF Len(node_ids) > 0
       THEN LET ids == [i \in 1..Len(node_ids) |-> node_ids[i].node_id]
            IN  /\ run_calls' = Append(run_calls, RunCall("run_multiple", ids))
                /\ \/ /\ code_results' = run_multiple(ids)
                      /\ run_pc' = "create_agents"
                   \/ /\ run_pc' = "raised"
                      /\ UNCHANGED code_results
       ELSE /\ code_results' = <<>>
            /\ run_pc' = "create_agents"
            /\ UNCHANGED run_calls
    /\ UNCHANGED <<orch_vars, extract_vars, classify_vars, shared_vars, node_ids, kickoff_pc,
                   write_fd>>

\* debug_agent = await self.create_agents()
CreateAgents ==
    /\ run_pc = "create_agents"
    /\ run_calls' = Append(run_calls, RunCall("create_agents", <<>>))
    /\ \/ run_pc' = "create_tasks"
       \/ run_pc' = "raised"
    /\ UNCHANGED <<orch_vars, extract_vars, classify_vars, shared_vars, node_ids, code_results,
                   kickoff_pc, write_fd>>

\* debug_task = await self.create_tasks(query, ..., node_ids, ..., code_results, ...)
CreateTasks ==
    /\ run_pc = "create_tasks"
    /\ run_calls' = Append(run_calls, RunCall("create_tasks", <<>>))
    /\ \/ run_pc' = "pipe"
       \/ run_pc' = "raised"
    /\ UNCHANGED <<orch_vars, extract_vars, classify_vars, shared_vars, node_ids, code_results,
                   kickoff_pc, write_fd>>

\* read_fd, write_fd = os.pipe(); asyncio.create_task(kickoff())
\* final_answer_streaming = False; async with aiofiles.open(read_fd, mode="r")
OpenPipe ==
    /\ run_pc = "pipe"
    /\ write_fd' = "open"
    /\ kickoff_pc' = "scheduled"
    /\ final_answer_streaming' = FALSE
    /\ run_pc' = "reading"
    /\ UNCHANGED <<orch_vars, classify_vars, shared_vars, lines, pos, fragments, node_ids,
                   code_results, run_calls>>

\* kickoff(): with os.fdopen(write_fd, "w", buffering=1) as write_file:
\*                with redirect_stdout(write_file): crew = Crew(...)
KickoffStart ==
    /\ kickoff_pc = "scheduled"
    /\ kickoff_pc' = "running"
    /\ UNCHANGED <<orch_vars, extract_vars, classify_vars, shared_vars, run_pc, node_ids,
                   code_results, run_calls, write_fd>>

\* await crew.kickoff_async(): the crew prints a line, which goes to the pipe
KickoffWrite ==
    /\ kickoff_pc = "running"
    /\ Len(lines) < MaxLines
    /\ \E l \in CrewLines : lines' = Append(lines, l)
    /\ UNCHANGED <<orch_vars, classify_vars, shared_vars, pos, final_answer_streaming,
                   fragments, run_vars>>

\* (mutant) the write end is closed only when the crew returns normally
KickoffEnd_NoCloseOnError ==
    /\ kickoff_pc = "running"
    /\ \/ kickoff_pc' = "finished" /\ write_fd' = "closed"
       \/ kickoff_pc' = "raised" /\ UNCHANGED write_fd
    /\ UNCHANGED <<orch_vars, extract_vars, classify_vars, shared_vars, run_pc, node_ids,
                   code_results, run_calls>>

\* crew.kickoff_async() returns or raises: both `with` blocks are left and
\* write_file is closed
KickoffEnd ==
    /\ kickoff_pc = "running"
    /\ kickoff_pc' \in {"finished", "raised"}
    /\ write_fd' = "closed"
    /\ UNCHANGED <<orch_vars, extract_vars, classify_vars, shared_vars, run_pc, node_ids,
                   code_results, run_calls>>

\* the body of the read loop, for a line that is in the pipe
ReadLine ==
    /\ run_pc = "reading"
    /\ ExtractLine

\* async for line in read_file: the pipe is empty and its write end closed,
\* the read returns end of file, the loop and the generator end
ReadEOF ==
    /\ run_pc = "reading"
    /\ pos = Len(lines)
    /\ write_fd = "closed"
    /\ run_pc' = "done"
    /\ UNCHANGED <<orch_vars, extract_vars, classify_vars, shared_vars, node_ids, code_results,
                   run_calls, kickoff_pc, write_fd>>

InitRun ==
    /\ agent = "debugging"
    /\ OrchIdle
    /\ ExtractIdle
    /\ ClassifyIdle
    /\ run_pc = "lookup"
    /\ node_ids \in NodeLists
    /\ code_results = <<>>
    /\ run_calls = <<>>
    /\ kickoff_pc = "none"
    /\ write_fd = "none"
    /\ SharedIdle

\* the steps of the generator run (the consumer of the pipe)
RunStep ==
    \/ LookupCode
    \/ CreateAgents
    \/ CreateTasks
    \/ OpenPipe
    \/ ReadLine
    \/ ReadEOF
\* the steps of the task kickoff (the producer of the pipe)
KickoffStep ==
    \/ KickoffStart
    \/ KickoffWrite
    \/ KickoffEnd

NextRun == RunStep \/ KickoffStep

SpecRun == InitRun /\ [][NextRun]_vars

\* the caller keeps iterating the generator, the event loop runs the task, and
\* the crew's run comes to an end
FairSpecRun == SpecRun /\ WF_vars(RunStep) /\ WF_vars(KickoffStep)

\* ------------------------------------------------------------------------
\* Several runs of DebugRAGAgent.run in one process: every kickoff() redirects
\* the one sys.stdout of the process to its own write_file
\* ------------------------------------------------------------------------
\* the k-th line the crew of a run prints: the marker line, then content
CrewLine(k) == IF k = 1 THEN Marker \o <<" ">> \o NL ELSE Hello \o NL
Written(r, text) == [by |-> r, text |-> text]
unshared_vars == <<orch_vars, extract_vars, run_vars, classify_vars>>

\* read_fd, write_fd = os.pipe(); asyncio.create_task(kickoff());
\* final_answer_streaming = False; async with aiofiles.open(read_fd, mode="r")
StartRun(r) ==
    /\ task_pc[r] = "none"
    /\ pipe_fd' = [pipe_fd EXCEPT ![r] = "open"]
    /\ task_pc' = [task_pc EXCEPT ![r] = "scheduled"]
    /\ reader_pc' = [reader_pc EXCEPT ![r] = "reading"]
    /\ streaming' = [streaming EXCEPT ![r] = FALSE]
    /\ UNCHANGED <<unshared_vars, sys_stdout, saved_stdout, pipe_lines, printed,
                   read_pos, emitted, console, closed_write>>

\* with os.fdopen(write_fd, "w", buffering=1) as write_file:
\*     with redirect_stdout(write_file):
\* redirect_stdout.__enter__ saves the current sys.stdout and replaces it
EnterRedirect(r) ==
    /\ task_pc[r] = "scheduled"
    /\ saved_stdout' = [saved_stdout EXCEPT ![r] = sys_stdout]
    /\ sys_stdout' = r
    /\ task_pc' = [task_pc EXCEPT ![r] = "running"]
    /\ UNCHANGED <<unshared_vars, pipe_fd, pipe_lines, printed, reader_pc,
                   read_pos, streaming, emitted, console, closed_write>>

\* await crew.kickoff_async(): the crew of run r prints a line; the line goes
\* to whatever sys.stdout is at that moment
CrewPrint(r) ==
    /\ task_pc[r] = "running"
    /\ printed[r] < MaxPrints
    /\ printed' = [printed EXCEPT ![r] = @ + 1]
    /\ LET line == Written(r, CrewLine(printed[r] + 1))
       IN  IF sys_stdout = OrigStdout
           THEN /\ console' = Append(console, line)
                /\ UNCHANGED <<pipe_lines, closed_write>>
           ELSE IF pipe_fd[sys_stdout] = "closed"
           THEN \* ValueError: I/O operation on closed file
                /\ closed_write' = TRUE
                /\ UNCHANGED <<pipe_lines, console>>
           ELSE /\ pipe_lines' = [pipe_lines EXCEPT ![sys_stdout] = Append(@, line)]
                /\ UNCHANGED <<console, closed_write>>
    /\ UNCHANGED <<unshared_vars, sys_stdout, saved_stdout, task_pc, pipe_fd,
                   reader_pc, read_pos, streaming, emitted>>

\* crew.kickoff_async() returns or raises: redirect_stdout.__exit__ puts back
\* the target it saved, then write_file is closed
ExitRedirect(r) ==
    /\ task_pc[r] = "running"
    /\ sys_stdout' = saved_stdout[r]
    /\ pipe_fd' = [pipe_fd EXCEPT ![r] = "closed"]
    /\ task_pc' = [task_pc EXCEPT ![r] = "ended"]
    /\ UNCHANGED <<unshared_vars, saved_stdout, pipe_lines, printed, reader_pc,
                   read_pos, streaming, emitted, console, closed_write>>

\* one iteration of `async for line in read_file` in run r
ReadPipe(r) ==
    /\ reader_pc[r] = "reading"
    /\ read_pos[r] < Len(pipe_lines[r])
    /\ LET line == pipe_lines[r][read_pos[r] + 1]
       IN  /\ read_pos' = [read_pos EXCEPT ![r] = @ + 1]
           /\ emitted' = IF streaming[r]
                         THEN [emitted EXCEPT ![r] =
                                  Append(@, Written(line.by, Fragment(line.text)))]
                         ELSE emitted
           /\ streaming' = IF Contains(line.text, Marker)
                           THEN [streaming EXCEPT ![r] = TRUE]
                           ELSE streaming
    /\ UNCHANGED <<unshared_vars, sys_stdout, saved_stdout, task_pc, pipe_fd,
                   pipe_lines, printed, reader_pc, console, closed_write>>

\* the pipe of run r is empty and its write end closed: end of file
ReadPipeEOF(r) ==
    /\ reader_pc[r] = "reading"
    /\ read_pos[r] = Len(pipe_lines[r])
    /\ pipe_fd[r] = "closed"
    /\ reader_pc' = [reader_pc EXCEPT ![r] = "done"]
    /\ UNCHANGED <<unshared_vars, sys_stdout, saved_stdout, task_pc, pipe_fd,
                   pipe_lines, printed, read_pos, streaming, emitted, console,
                   closed_write>>

InitShared ==
    /\ agent = "debugging"
    /\ OrchIdle
    /\ ExtractIdle
    /\ RunIdle
    /\ ClassifyIdle
    /\ SharedIdle

NextShared ==
    \E r \in Runs :
        \/ StartRun(r)
        \/ EnterRedirect(r)
        \/ CrewPrint(r)
        \/ ExitRedirect(r)
        \/ ReadPipe(r)
        \/ ReadPipeEOF(r)

SpecShared == InitShared /\ [][NextShared]_vars

\* ------------------------------------------------------------------------
\* The history given to the classifier: run's validated_history and
\* _classify_query's inputs["history"]
\* ------------------------------------------------------------------------
\* entries the History Store may return: a bare str, a bare int, a message
HistoryEntries ==
    { [kind |-> "str", s |-> "a"],
      [kind |-> "int", n |-> 7],
      [kind |-> "AIMessage", content |-> "b"] }
Histories == UNION { [1..n -> HistoryEntries] : n \in 0..MaxHistory }

\* str(msg) of a bare str or int
Str(msg) == IF msg.kind = "int" THEN ToString(msg.n) ELSE msg.s

\* HumanMessage(content=str(msg)) if isinstance(msg, (str, int, float)) else msg
Validated(msg) ==
    IF msg.kind \in {"str", "int"}
    THEN [kind |-> "HumanMessage", content |-> Str(msg)]
    ELSE msg

\* (mutant) the first w entries, h[:w]
Slice_First(h, w) == SubSeq(h, 1, IF Len(h) < w THEN Len(h) ELSE w)

\* Python's h[-w:] for w > 0: from index max(len(h) - w, 0) to the end
Slice(h, w) == SubSeq(h, (IF Len(h) - w < 0 THEN 0 ELSE Len(h) - w) + 1, Len(h))

\* validated_history = [... for msg in history]
ValidateHistory ==
    /\ classify_pc = "validate"
    /\ validated_history' = [i \in 1..Len(history) |-> Validated(history[i])]
    /\ classify_pc' = "classify"
    /\ UNCHANGED <<agent, chain, prompt_cache, message_buffer, turns, pc, nreq,
                   user_id, conversation_id, classification, tool_results,
                   citations, runner, rag_result, content, full_response,
                   produced, yielded, trace, error, extract_vars, run_vars,
                   history, classifier_history, shared_vars>>

\* inputs = {"query": query, "history": [msg.content for msg in history[-5:]]}
BuildClassifierInputs ==
    /\ classify_pc = "classify"
    /\ LET window == Slice(validated_history, HistoryWindow)
       IN  classifier_history' = [i \in 1..Len(window) |-> window[i].content]
    /\ classify_pc' = "done"
    /\ UNCHANGED <<orch_vars, extract_vars, run_vars, history, shared_vars>>

InitClassify ==
    /\ agent \in {"debugging", "code_changes"}
    /\ OrchIdle
    /\ ExtractIdle
    /\ RunIdle
    /\ history \in Histories
    /\ classifier_history = <<>>
    /\ classify_pc = "validate"
    /\ SharedIdle

NextClassify == ValidateHistory \/ BuildClassifierInputs

SpecClassify == InitClassify /\ [][NextClassify]_vars

\* ------------------------------------------------------------------------
\* Properties of the orchestrator
\* ------------------------------------------------------------------------
\* the items of `items` that are JSON chunks, and their message fields
Chunks(items) == SelectSeq(items, IsJson)
Messages(items) == [i \in 1..Len(Chunks(items)) |-> Chunks(items)[i].json.message]
\* the positions in trace of the calls of `op`, and their content arguments
Calls(op) == SelectSeq([i \in 1..Len(trace) |-> i], LAMBDA i : trace[i].op = op)
Args(op) == [k \in 1..Len(Calls(op)) |-> trace[Calls(op)[k]].arg]
Succeeded == pc = "done" /\ error = NoError
\* a JSON object with exactly the fields citations (strings) and message (a string)
IsStreamChunk(item) ==
    /\ IsJson(item)
    /\ DOMAIN item.json = {"citations", "message"}
    /\ item.json.citations \in Seq(STRING)
    /\ item.json.message \in STRING

\* C1: when the classifier returned NO_AGENT every yielded chunk has the empty
\* citations list, and once the request has ended with no step failing every
\* yielded item is a chunk and the messages, concatenated in yield order, are
\* the contents the direct chain produced, concatenated in production order.
C1_NoAgentStream ==
    classification = "NO_AGENT" =>
        /\ \A i \in 1..Len(yielded) :
              IsJson(yielded[i]) => yielded[i].json.citations = <<>>
        /\ Succeeded =>
              /\ \A i \in 1..Len(yielded) : IsJson(yielded[i])
              /\ Concat(Messages(yielded)) = Concat(produced)

C1_Witness ==
    /\ Succeeded
    /\ classification = "NO_AGENT"
    /\ Len(produced) >= 2
    /\ Len(yielded) = Len(produced)

\* C2 (as claimed): a request whose classifier returned AGENT_REQUIRED and
\* whose Runner gives structured output ends having yielded exactly one chunk,
\* and the chunk's citations are the citations of the Runner's result.
C2_OneChunkWithRunnerCitations ==
    (pc = "done" /\ classification = "AGENT_REQUIRED" /\ runner.kind = "structured") =>
        /\ Len(yielded) = 1
        /\ IsJson(yielded[1])
        /\ yielded[1].json.citations = runner.citations

\* the await of the Runner raised
RunnerRaised == error \in {"RunnerError", "TypeError"}

\* C3: once the await of the Runner has raised, run is in its except clause
\* with nothing yielded yet, or it has ended having yielded exactly one item,
\* the error text; run is never left by an exception.
C3_RunnerFailureContained ==
    RunnerRaised =>
        /\ pc \in {"except", "done"}
        /\ pc = "except" => yielded = <<>>
        /\ pc = "done" =>
              /\ Len(yielded) = 1
              /\ IsErrorText(yielded[1])
              /\ yielded[1].text = "An error occurred: " \o error

C3_Witness ==
    /\ pc = "done"
    /\ agent = "code_changes"
    /\ runner.kind = "raises"
    /\ error = "RunnerError"
    /\ Len(yielded) = 1

\* C4: the k-th chunk yielded is preceded by the k-th add_message_chunk call,
\* which has the same content, so there are never more yielded chunks than
\* add_message_chunk calls; when a request has succeeded the contents of the
\* add_message_chunk calls are the yielded messages, in the same order.
C4_WriteThenNotify ==
    /\ Messages(yielded) = Args("yield")
    /\ Len(Calls("yield")) <= Len(Calls("add_message_chunk"))
    /\ \A k \in 1..Len(Calls("yield")) :
          /\ Calls("add_message_chunk")[k] < Calls("yield")[k]
          /\ Args("add_message_chunk")[k] = Args("yield")[k]
    /\ Succeeded => Args("add_message_chunk") = Messages(yielded)

C4_Witness ==
    /\ Succeeded
    /\ Len(Messages(yielded)) >= 2
    /\ Args("add_message_chunk") = Messages(yielded)

\* C5 (as claimed): every item run has emitted is a JSON object with exactly
\* the fields citations and message.
C5_EveryItemIsChunk ==
    \A i \in 1..Len(yielded) : IsStreamChunk(yielded[i])

\* C5 (amended): every item run has emitted is such a JSON object, except the
\* item of the failure path: that one is the plain text "An error occurred: "
\* followed by the exception's text, and it is the last item of the request.
C5_ChunkOrFinalErrorText ==
    \A i \in 1..Len(yielded) :
        \/ IsStreamChunk(yielded[i])
        \/ /\ IsErrorText(yielded[i])
           /\ yielded[i].text = "An error occurred: " \o error
           /\ error # NoError
           /\ i = Len(yielded)
           /\ pc = "done"

C5_Witness ==
    /\ pc = "done"
    /\ Len(yielded) >= 2
    /\ IsStreamChunk(yielded[1])
    /\ IsErrorText(yielded[Len(yielded)])

\* C6 (as claimed, its safety half): a request that has ended has yielded at
\* least one item.
C6_EndedRequestYielded ==
    pc = "done" => Len(yielded) >= 1

PcValues == {"idle", "create_chain", "get_session_history", "classify", "agent",
             "direct", "astream", "add_message_chunk", "yield",
             "flush_message_buffer", "except", "done"}

\* C6 (amended): every started request eventually ends its output normally and
\* no exception leaves run; by then it has yielded at least one item, unless
\* no step failed and the direct chain produced no chunk at all: then nothing
\* was yielded.
C6_EndsAndYieldsUnlessEmpty ==
    /\ [](pc \in PcValues)
    /\ [](pc \notin {"idle", "done"} => <>(pc = "done"))
    /\ [](pc = "done" =>
            IF error = NoError /\ produced = <<>>
            THEN yielded = <<>>
            ELSE Len(yielded) >= 1)

C6_Witness ==
    /\ Succeeded
    /\ produced = <<>>
    /\ yielded = <<>>
    /\ Len(Calls("flush_message_buffer")) = 1

\* ------------------------------------------------------------------------
\* Properties of the Transcript Stream Extractor
\* ------------------------------------------------------------------------
\* the lines read so far that contain the marker
MarkerLines == {i \in 1..pos : Contains(lines[i], Marker)}
FirstMarker == CHOOSE i \in MarkerLines : \A j \in MarkerLines : i <= j
\* the text of a line: the line without its line terminator
Text(line) == IF EndsWith(line, NL) THEN DropLast(line, 1) ELSE line
ExampleText == <<Thinking, Marker \o <<" ">>, Hello, World \o ColorReset>>

\* C7 (as claimed): the fragments are the texts of the lines after the first
\* marker line, in order; a text that ends with the escape sequence is emitted
\* without it, every other text as it is.  The example gives "Hello", "World".
C7_OnlyEscapeRemoved ==
    /\ MarkerLines = {} => fragments = <<>>
    /\ MarkerLines # {} =>
          /\ Len(fragments) = pos - FirstMarker
          /\ \A j \in 1..Len(fragments) :
                LET text == Text(lines[FirstMarker + j])
                IN  IF EndsWith(text, ColorReset)
                    THEN fragments[j] \o ColorReset = text
                    ELSE fragments[j] = text
    /\ (pos = Len(lines) /\ [i \in 1..Len(lines) |-> Text(lines[i])] = ExampleText)
          => fragments = <<Hello, World>>

\* C7 (amended): the fragments are made from the lines after the first marker
\* line, in order, one fragment per line.  A line that ends with the escape
\* sequence followed by the newline is emitted without these six characters
\* (the escape sequence and the newline); every other line is emitted as
\* read, its newline included, also a last line that ends with the escape
\* sequence and has no newline.  The marker line itself is not emitted.  The
\* example, every line terminated, gives "Hello\n", "World".
C7_EscapeAndNewlineRemoved ==
    /\ MarkerLines = {} => fragments = <<>>
    /\ MarkerLines # {} =>
          /\ Len(fragments) = pos - FirstMarker
          /\ \A j \in 1..Len(fragments) :
                LET line == lines[FirstMarker + j]
                IN  IF EndsWith(line, ColorReset \o NL)
                    THEN fragments[j] \o ColorReset \o NL = line
                    ELSE fragments[j] = line
    /\ (pos = Len(lines) /\ lines = [i \in 1..4 |-> ExampleText[i] \o NL])
          => fragments = <<Hello \o NL, World>>

C7_Witness ==
    /\ pos = Len(lines)
    /\ lines = [i \in 1..4 |-> ExampleText[i] \o NL]
    /\ fragments = <<Hello \o NL, World>>

\* C8: as long as no line read contains the marker, nothing has been emitted,
\* however many lines were read.
C8_NoMarkerNoFragment ==
    (\A i \in 1..pos : ~Contains(lines[i], Marker)) => fragments = <<>>

C8_Witness ==
    /\ pos = Len(lines)
    /\ pos >= 3
    /\ \A i \in 1..pos : ~Contains(lines[i], Marker)
    /\ \E i \in 1..pos : EndsWith(lines[i], ColorReset \o NL)
    /\ fragments = <<>>

\* ------------------------------------------------------------------------
\* Properties of the flush
\* ------------------------------------------------------------------------
\* C9: a request calls flush_message_buffer at most once, for its own
\* conversation, and calls add_message_chunk only for its own conversation and
\* never after the flush; a request whose streaming loop has completed and
\* that ended without error has called flush_message_buffer exactly once.
C9_FlushOnceAfterAdds ==
    /\ Len(Calls("flush_message_buffer")) <= 1
    /\ \A i \in 1..Len(trace) :
          trace[i].op \in {"flush_message_buffer", "add_message_chunk"}
              => trace[i].conv = conversation_id
    /\ \A f \in Range(Calls("flush_message_buffer")) :
          \A a \in Range(Calls("add_message_chunk")) : a < f
    /\ pc = "flush_message_buffer" => Len(Calls("flush_message_buffer")) = 0
    /\ Succeeded => Len(Calls("flush_message_buffer")) = 1

C9_Witness ==
    /\ Succeeded
    /\ Len(Calls("add_message_chunk")) >= 2
    /\ Len(Calls("flush_message_buffer")) = 1
    /\ trace[Len(trace)].op = "flush_message_buffer"

\* the last n elements of s
LastN(s, n) == SubSeq(s, Len(s) - n + 1, Len(s))

\* C10: when the direct stream has raised after k chunks were yielded, the
\* request makes no flush_message_buffer call, the k chunks stay yielded and
\* are the last k chunks of the conversation's buffer, the durable turns of
\* the conversation are those read at the start of the request, and the
\* request ends with one error item after the k chunks.
C10_StreamFailureLeavesBuffer ==
    error = "StreamError" =>
        LET k == Len(produced) IN
        /\ Len(Calls("flush_message_buffer")) = 0
        /\ Len(yielded) >= k
        /\ \A i \in 1..k :
              IsJson(yielded[i]) /\ yielded[i].json.message = produced[i]
        /\ Len(message_buffer[conversation_id]) >= k
        /\ [i \in 1..k |-> LastN(message_buffer[conversation_id], k)[i].content]
              = produced
        /\ turns[conversation_id] = validated_history
        /\ pc \in {"except", "done"}
        /\ pc = "except" => Len(yielded) = k
        /\ pc = "done" => Len(yielded) = k + 1 /\ IsErrorText(yielded[k + 1])

C10_Witness ==
    /\ error = "StreamError"
    /\ pc = "done"
    /\ Len(produced) >= 1
    /\ Len(yielded) = Len(produced) + 1

\* ------------------------------------------------------------------------
\* Properties of the classification and of the prompts
\* ------------------------------------------------------------------------
\* C11 (as claimed, its first half): a request that has ended has invoked the
\* classifier exactly once.
C11_ClassifiedOncePerRequest ==
    pc = "done" => Len(Calls("_classify_query")) = 1

\* the call the request failed in came before the classification
FailedBeforeClassify ==
    \/ error \in {"ValueError", "RuntimeError", "PromptServiceError"}
    \/ error = "HistoryStoreError" /\ Len(Calls("_classify_query")) = 0

\* C11 (amended): the classifier is invoked at most once in a request and is
\* never retried; it is invoked exactly once in every request that gets as
\* far as the classification, and not at all in a request that fails while the
\* chain is created or the history is fetched.  When its response is malformed
\* the request is failed: no Runner call, no request to the direct chain, no
\* add_message_chunk and no flush_message_buffer call, and no chunk yielded.
C11_ClassifiedAtMostOnceNoRetry ==
    /\ Len(Calls("_classify_query")) <= 1
    /\ classification # "None" => Len(Calls("_classify_query")) = 1
    /\ (pc \in {"except", "done"} /\ Len(Calls("_classify_query")) = 0)
          => FailedBeforeClassify
    /\ error = "OutputParserException" =>
          /\ Len(Calls("_classify_query")) = 1
          /\ classification = "None"
          /\ \A i \in 1..Len(trace) :
                trace[i].op \notin {"kickoff_debug_rag_agent",
                                    "kickoff_blast_radius_agent", "astream",
                                    "add_message_chunk", "flush_message_buffer"}
          /\ Chunks(yielded) = <<>>
          /\ pc \in {"except", "done"}

C11_Witness ==
    /\ pc = "done"
    /\ error = "OutputParserException"
    /\ Len(Calls("_classify_query")) = 1
    /\ Len(yielded) = 1

\* C12: when the SYSTEM or the HUMAN prompt is missing (_create_chain raises
\* ValueError) the request makes no call but the prompt lookup: the history is
\* not fetched, the classifier and the Runner are not invoked, nothing is
\* requested from the direct chain, no add_message_chunk or
\* flush_message_buffer call is made, self.chain stays unset, and no chunk is
\* yielded.
C12_MissingPromptFailsFirst ==
    error = "ValueError" =>
        /\ \A i \in 1..Len(trace) : trace[i].op \in {"_get_prompts", "yield_error"}
        /\ Len(Calls("_get_prompts")) = 1
        /\ chain = NoChain
        /\ classification = "None"
        /\ Chunks(yielded) = <<>>
        /\ pc \in {"except", "done"}

C12_Witness ==
    /\ pc = "done"
    /\ error = "ValueError"
    /\ nreq = 2
    /\ Len(yielded) = 1

\* ------------------------------------------------------------------------
\* Properties of DebugRAGAgent.run
\* ------------------------------------------------------------------------
RunCalls(op) == SelectSeq(run_calls, LAMBDA c : c.op = op)
NodeIds == [i \in 1..Len(node_ids) |-> node_ids[i].node_id]
KickoffEnded == kickoff_pc \in {"finished", "raised"}

\* C13: in a run of the Runner with a non-empty list of node contexts the
\* multi-node lookup run_multiple is called exactly once, with the node ids of
\* the list in the order of the list, and before create_agents and
\* create_tasks are called; with an empty list it is not called at all.
C13_BatchedLookupOnce ==
    /\ Len(RunCalls("run_multiple")) <= 1
    /\ Len(node_ids) = 0 => RunCalls("run_multiple") = <<>>
    /\ (Len(node_ids) > 0 /\ run_pc # "lookup") =>
          /\ Len(RunCalls("run_multiple")) = 1
          /\ RunCalls("run_multiple")[1].arg = NodeIds
          /\ run_calls[1].op = "run_multiple"
    /\ \A i, j \in 1..Len(run_calls) :
          (/\ run_calls[i].op = "run_multiple"
           /\ run_calls[j].op \in {"create_agents", "create_tasks"}) => i < j

C13_Witness ==
    /\ node_ids = <<[node_id |-> "a"], [node_id |-> "b"]>>
    /\ run_pc = "done"
    /\ run_calls = <<RunCall("run_multiple", <<"a", "b">>),
                     RunCall("create_agents", <<>>),
                     RunCall("create_tasks", <<>>)>>
    /\ Len(code_results) = 2

\* C14: the task kickoff and the read loop run side by side over the pipe.
\* Once kickoff has ended, by returning or by raising, the write end of the
\* pipe is closed; from then on the read loop drains the pipe and ends; and
\* under fair scheduling a read loop that was started always ends.
C14_ExtractorTerminates ==
    /\ [](KickoffEnded => write_fd = "closed")
    /\ [](run_pc = "done" => (write_fd = "closed" /\ pos = Len(lines)))
    /\ (KickoffEnded ~> run_pc = "done")
    /\ (run_pc = "reading" ~> run_pc = "done")

C14_Witness ==
    /\ kickoff_pc = "raised"
    /\ run_pc = "done"
    /\ write_fd = "closed"
    /\ pos = Len(lines)
    /\ Len(fragments) >= 2

\* ------------------------------------------------------------------------
\* Properties of the orchestrator, continued
\* ------------------------------------------------------------------------
ErrorItems == SelectSeq(yielded, IsErrorText)

\* C15: a request in which a step failed (the chain's creation, the history
\* fetch, the classification, the agent branch or the streaming) yields
\* exactly one error text, as the last item of its output; nothing is yielded
\* after it and no call (none to the History Store in particular) is made
\* after it.  A request in which no step failed yields no error text.
C15_OneErrorTextLast ==
    /\ Len(ErrorItems) <= 1
    /\ \A i \in 1..Len(yielded) : IsErrorText(yielded[i]) => i = Len(yielded)
    /\ \A i \in 1..Len(trace) : trace[i].op = "yield_error" => i = Len(trace)
    /\ error = NoError => ErrorItems = <<>>
    /\ pc = "except" => (error # NoError /\ ErrorItems = <<>>)
    /\ (pc = "done" /\ error # NoError) =>
          /\ ErrorItems = <<ErrorText(error)>>
          /\ yielded[Len(yielded)] = ErrorText(error)
          /\ trace[Len(trace)].op = "yield_error"

C15_Witness ==
    /\ pc = "done"
    /\ error = "StreamError"
    /\ Len(Chunks(yielded)) >= 1
    /\ Len(yielded) = Len(Chunks(yielded)) + 1
    /\ IsErrorText(yielded[Len(yielded)])
    /\ Len(Calls("add_message_chunk")) >= 1

\* executions of the Tool-Agent Runner in the request: awaited calls of
\* kickoff_blast_radius_agent, and runs of DebugRAGAgent.run
RunnerRuns ==
    Len(Calls("kickoff_blast_radius_agent")) + (IF run_pc = "idle" THEN 0 ELSE 1)
\* the request is past the branch on the classification
PastBranch == classification # "None" /\ pc # "agent"

\* C16 (as claimed): in a request the Runner is executed at most once, and
\* once the request is past the branch it has been executed if and only if
\* the classifier returned AGENT_REQUIRED; DebuggingChatAgent.run never both
\* calls the Runner and requests the direct chain; CodeChangesChatAgent.run
\* requests the direct chain in both cases, with tool_results empty exactly
\* when the classifier returned NO_AGENT.
C16_RunnerOnceIffAgentRequired ==
    /\ RunnerRuns <= 1
    /\ PastBranch => (RunnerRuns = 1 <=> classification = "AGENT_REQUIRED")
    /\ agent = "debugging" =>
          ~(Calls("kickoff_debug_rag_agent") # <<>> /\ Calls("astream") # <<>>)
    /\ (agent = "code_changes" /\ Succeeded) => Calls("astream") # <<>>
    /\ (agent = "code_changes" /\ Calls("astream") # <<>>) =>
          (tool_results = <<>> <=> classification = "NO_AGENT")

\* positions in the trace of the calls of the Runner, of the requests to the
\* direct chain, and of the chunk writes and yields
BranchCalls ==
    Calls("kickoff_debug_rag_agent") \o Calls("kickoff_blast_radius_agent")
        \o Calls("astream")
ChunkCalls == Calls("add_message_chunk") \o Calls("yield")
Before(s, t) == \A i \in 1..Len(s) : \A j \in 1..Len(t) : s[i] < t[j]

\* C17: in a request the session history is fetched before the classifier is
\* invoked; the Runner is called and the direct chain is asked for a chunk
\* only after the classifier was invoked and has returned a classification;
\* every flush_message_buffer call comes after every add_message_chunk call;
\* and as long as the classifier has not returned, no chunk has been written
\* to the buffer or yielded.
C17_StepOrder ==
    /\ Calls("_classify_query") # <<>> => Len(Calls("get_session_history")) = 1
    /\ Before(Calls("get_session_history"), Calls("_classify_query"))
    /\ Before(Calls("_classify_query"), BranchCalls \o ChunkCalls)
    /\ Before(Calls("get_session_history"), BranchCalls \o ChunkCalls)
    /\ (BranchCalls \o ChunkCalls \o Calls("flush_message_buffer")) # <<>> =>
          (classification # "None" /\ Len(Calls("_classify_query")) = 1)
    /\ Before(Calls("add_message_chunk"), Calls("flush_message_buffer"))
    /\ Before(BranchCalls, Calls("flush_message_buffer"))
    /\ classification = "None" =>
          (ChunkCalls = <<>> /\ Chunks(yielded) = <<>> /\ produced = <<>>)

C17_Witness ==
    /\ Succeeded
    /\ agent = "code_changes"
    /\ classification = "AGENT_REQUIRED"
    /\ Len(Calls("kickoff_blast_radius_agent")) = 1
    /\ Len(Calls("add_message_chunk")) = 2
    /\ Len(Calls("flush_message_buffer")) = 1
    /\ trace[Len(trace)].op = "flush_message_buffer"

\* C20: the flag final_answer_streaming is false at the start, it is true
\* exactly when a line read so far contained the marker, and no step resets
\* it; every line that contains the marker and is read after the first such
\* line is emitted, marker included, as a fragment of its own.
C20_FlagMonotone ==
    /\ final_answer_streaming = FALSE
    /\ [](final_answer_streaming <=> MarkerLines # {})
    /\ [][final_answer_streaming => final_answer_streaming']_vars
    /\ [](\A i \in MarkerLines :
             i > FirstMarker =>
                 /\ Len(fragments) >= i - FirstMarker
                 /\ Contains(fragments[i - FirstMarker], Marker))

C20_Witness ==
    /\ pos = Len(lines)
    /\ pos = 4
    /\ MarkerLines = {2, 3}
    /\ final_answer_streaming
    /\ Len(fragments) = 2
    /\ Contains(fragments[1], Marker)
    /\ ~Contains(fragments[2], Marker)

IsPrefix(s, t) == Len(s) <= Len(t) /\ SubSeq(t, 1, Len(s)) = s
LastOp(tr) == IF tr = <<>> THEN "None" ELSE tr[Len(tr)].op

\* C19: in every step of every request, failed or not, the durable turns of
\* each conversation before the step are a prefix of its durable turns after
\* the step: no turn is changed, removed or reordered.  The durable turns
\* change only in a flush_message_buffer call, and only those of the request's
\* conversation; the buffer changes only in an add_message_chunk or a
\* flush_message_buffer call.
C19_DurableTurnsPrefix ==
    [][/\ \A c \in Conversations : IsPrefix(turns[c], turns'[c])
       /\ turns' # turns =>
             /\ LastOp(trace') = "flush_message_buffer"
             /\ \A c \in Conversations \ {conversation_id} : turns'[c] = turns[c]
       /\ message_buffer' # message_buffer =>
             LastOp(trace') \in {"add_message_chunk", "flush_message_buffer"}
      ]_vars

C19_Witness ==
    /\ pc = "done"
    /\ nreq = 2
    /\ Len(turns["c1"]) = 2
    /\ Len(turns["c1"][1]) >= 1
    /\ Len(turns["c1"][2]) >= 1

\* ------------------------------------------------------------------------
\* Properties of the classifier's input
\* ------------------------------------------------------------------------
\* the textual content of an entry of the session history
TextOf(entry) ==
    CASE entry.kind = "str" -> entry.s
      [] entry.kind = "int" -> ToString(entry.n)
      [] OTHER -> entry.content

\* C18: the history given to the classifier prompt has min(5, n) elements for
\* a session history of n entries, and its i-th element is the textual
\* content of the i-th of the last min(5, n) entries: the last five entries
\* in their order, all entries when there are fewer than five, and none of
\* the older ones.
C18_LastFiveContents ==
    classify_pc = "done" =>
        LET n == Len(history)
            k == Len(classifier_history)
        IN  /\ k = (IF n < 5 THEN n ELSE 5)
            /\ \A i \in 1..k : classifier_history[i] = TextOf(history[n - k + i])

C18_Witness ==
    /\ classify_pc = "done"
    /\ Len(history) = 6
    /\ history[1].kind = "int"
    /\ history[2].kind = "str"
    /\ history[6].kind = "AIMessage"
    /\ Len(classifier_history) = 5
    /\ classifier_history[1] = "a"
    /\ classifier_history[5] = "b"

\* ------------------------------------------------------------------------
\* Properties of runs that share the process
\* ------------------------------------------------------------------------
\* C21 (as claimed): with runs of DebugRAGAgent.run in progress at the same
\* time, every line in the pipe of a run was printed by the crew of that run,
\* every fragment a run yields comes from a line of its own crew, and no print
\* is made to a write_file that is already closed.
C21_RunsIsolated ==
    /\ \A r \in Runs : \A i \in 1..Len(pipe_lines[r]) : pipe_lines[r][i].by = r
    /\ \A r \in Runs : \A i \in 1..Len(emitted[r]) : emitted[r][i].by = r
    /\ ~closed_write

\* ------------------------------------------------------------------------
\* Properties of a sequence of requests on one orchestrator instance
\* ------------------------------------------------------------------------
\* the turn the request's flush_message_buffer call has committed
CommittedTurn == turns[conversation_id][Len(turns[conversation_id])]

\* C22 (as claimed): when a request has ended after its flush_message_buffer
\* call, the turn the flush committed consists of exactly the chunks the
\* request wrote with add_message_chunk, in order: no chunk that an earlier,
\* failed request left in the buffer is part of it.
C22_TurnIsOwnChunks ==
    (Succeeded /\ Len(Calls("flush_message_buffer")) = 1) =>
        /\ turns[conversation_id] # <<>>
        /\ [i \in 1..Len(CommittedTurn) |-> CommittedTurn[i].content]
              = Args("add_message_chunk")

\* C23 (as claimed): the direct chain of the instance, once built, was built
\* from the prompts of the user of the request that is being served; a
\* request that asks the direct chain for chunks does so with the chain of its
\* own user.
C23_ChainOfRequestUser ==
    /\ (pc \notin {"idle", "create_chain"} /\ chain # NoChain) => chain = user_id
    /\ Calls("astream") # <<>> => chain = user_id
====
